---- MODULE Spec2Model ----
\* A model of the MUTR Combined Liquidity Reserve (CLR): the share-accounting
\* and reward-distribution engine of
\*   src/mutr_clr_concept/mutr_clr.rs   (the "concept" implementation) and
\*   src/programs/mutr_clr/src/lib.rs   (the "program" implementation).
\* Every instruction is one atomic transaction: it either commits all of its
\* effects or, on any error, none of them.
EXTENDS Integers, Sequences, FiniteSets, TLC

\* ---------------------------------------------------------------------------
\* Wide (u128) fixed-point arithmetic.
\* acc_reward_per_share and reward_debt are scaled by 10^12, which does not fit
\* the model checker's machine integers, so these two quantities are kept as
\* little-endian sequences of base-10^4 limbs without leading zero limbs
\* (zero is <<>>).  10^12 is exactly three limbs.
\* ---------------------------------------------------------------------------
LimbBase == 10000

\* REWARD_PRECISION = 1_000_000_000_000 = LimbBase^3
REWARD_PRECISION == <<0, 0, 0, 1>>

RECURSIVE BNNorm(_)
BNNorm(s) ==
    IF s = <<>> THEN <<>>
    ELSE IF s[Len(s)] = 0 THEN BNNorm(SubSeq(s, 1, Len(s) - 1))
    ELSE s

RECURSIVE BNFromInt(_)
BNFromInt(n) ==
    IF n = 0 THEN <<>>
    ELSE <<n % LimbBase>> \o BNFromInt(n \div LimbBase)

\* value of a wide number known to be below LimbBase^2 (every base-asset
\* amount of the model is)
RECURSIVE BNToInt(_)
BNToInt(s) ==
    IF s = <<>> THEN 0
    ELSE s[1] + LimbBase * BNToInt(Tail(s))

RECURSIVE BNAddC(_, _, _)
BNAddC(a, b, c) ==
    IF a = <<>> /\ b = <<>> THEN (IF c = 0 THEN <<>> ELSE <<c>>)
    ELSE LET x == (IF a = <<>> THEN 0 ELSE a[1])
                  + (IF b = <<>> THEN 0 ELSE b[1]) + c
         IN  <<x % LimbBase>>
             \o BNAddC(IF a = <<>> THEN <<>> ELSE Tail(a),
                       IF b = <<>> THEN <<>> ELSE Tail(b),
                       x \div LimbBase)

BNAdd(a, b) == BNAddC(a, b, 0)

\* a < b, comparing from the most significant limb
RECURSIVE BNLessFrom(_, _, _)
BNLessFrom(a, b, i) ==
    IF i = 0 THEN FALSE
    ELSE IF a[i] # b[i] THEN a[i] < b[i]
    ELSE BNLessFrom(a, b, i - 1)

BNLess(a, b) ==
    IF Len(a) # Len(b) THEN Len(a) < Len(b)
    ELSE BNLessFrom(a, b, Len(a))

BNLeq(a, b) == ~BNLess(b, a)

\* a - b for b <= a
RECURSIVE BNSubB(_, _, _)
BNSubB(a, b, borrow) ==
    IF a = <<>> THEN <<>>
    ELSE LET x == a[1] - (IF b = <<>> THEN 0 ELSE b[1]) - borrow
         IN  <<IF x < 0 THEN x + LimbBase ELSE x>>
             \o BNSubB(Tail(a), IF b = <<>> THEN <<>> ELSE Tail(b),
                       IF x < 0 THEN 1 ELSE 0)

BNSub(a, b) == BNNorm(BNSubB(a, b, 0))

\* a * k for a machine integer k
RECURSIVE BNMulC(_, _, _)
BNMulC(a, k, c) ==
    IF a = <<>> THEN BNFromInt(c)
    ELSE LET x == a[1] * k + c
         IN  <<x % LimbBase>> \o BNMulC(Tail(a), k, x \div LimbBase)

BNMulInt(a, k) == BNNorm(BNMulC(a, k, 0))

\* floor(a / k) for a machine integer k > 0: long division from the top limb
RECURSIVE BNDivFrom(_, _, _, _)
BNDivFrom(a, k, i, rem) ==
    IF i = 0 THEN <<>>
    ELSE LET cur == rem * LimbBase + a[i]
         IN  BNDivFrom(a, k, i - 1, cur % k) \o <<cur \div k>>

BNDivInt(a, k) == BNNorm(BNDivFrom(a, k, Len(a), 0))

\* a * REWARD_PRECISION and floor(a / REWARD_PRECISION): a shift by the three
\* zero limbs of REWARD_PRECISION
BNMulPrecision(a) ==
    IF a = <<>> THEN <<>>
    ELSE SubSeq(REWARD_PRECISION, 1, Len(REWARD_PRECISION) - 1) \o a

BNDivPrecision(a) ==
    IF Len(a) < Len(REWARD_PRECISION) THEN <<>>
    ELSE SubSeq(a, Len(REWARD_PRECISION), Len(a))

\* ---------------------------------------------------------------------------
\* State
\* ---------------------------------------------------------------------------
Users == {"alice", "bob"}
Admin == "admin"
Game == "game"
NoKey == "none"
Impls == {"concept", "program"}

VARIABLES
    impl,             \* which of the two source files is deployed
    state,            \* GlobalState (the Reserve Ledger)
    user_state,       \* UserState per user (the Participant Ledgers)
    clr_vault,        \* clr_vault.amount: base asset held by the reserve
    xmutr_supply,     \* xmutr_mint.supply: share asset minted minus burned
    user_xmutr,       \* user_xmutr_account.amount per user
    profit_recorded,  \* total amount passed to successful record_profit calls
    rewards_paid,     \* total amount paid out by claim_rewards
    nops,             \* number of committed instructions (bounds the model)
    last,             \* the latest instruction, its result and the state before it
    hist,             \* the latest committed instruction before `last`
    wide              \* one 64-bit narrowing of a handler, on full-width operands

vars == <<impl, state, user_state, clr_vault, xmutr_supply, user_xmutr,
          profit_recorded, rewards_paid, nops, last, hist, wide>>

\* GlobalState before initialize_clr has created the account
NoState ==
    [initialized |-> FALSE, authority |-> NoKey,
     stake_fee_bps |-> 0, unstake_fee_bps |-> 0,
     acc_reward_per_share |-> <<>>, total_dividend_shares |-> 0]

\* UserState before init_if_needed has created the account (all zero)
NoUser ==
    [owner |-> NoKey, staked_shares |-> 0, dividend_shares |-> 0,
     reward_debt |-> <<>>, pending_rewards |-> 0]

Snapshot ==
    [state |-> state, user_state |-> user_state, clr_vault |-> clr_vault,
     xmutr_supply |-> xmutr_supply, user_xmutr |-> user_xmutr]

NoCall == [op |-> "none", caller |-> NoKey, arg |-> 0, out |-> 0]

\* no narrowing under study
NoWide ==
    [op |-> "none", x |-> <<>>, y |-> <<>>, n |-> 0, m |-> 0,
     done |-> FALSE, exact |-> <<>>, out |-> [err |-> "", val |-> <<>>]]

InitAccounts ==
    /\ impl \in Impls
    /\ state = NoState
    /\ user_state = [u \in Users |-> NoUser]
    /\ clr_vault = 0
    /\ xmutr_supply = 0
    /\ user_xmutr = [u \in Users |-> 0]
    /\ profit_recorded = 0
    /\ rewards_paid = 0
    /\ nops = 0
    /\ last = [op |-> "none", caller |-> NoKey, arg |-> 0, res |-> "none",
               out |-> 0, pre |-> Snapshot]
    /\ hist = NoCall

Init == InitAccounts /\ wide = NoWide

\* ---------------------------------------------------------------------------
\* Helper functions of the source
\* ---------------------------------------------------------------------------

\* How a failed wide-arithmetic step ends the instruction: the concept maps it
\* to MathOverflow, the program unwraps and panics.  Either way the
\* transaction is aborted.
ArithError(i) == IF i = "concept" THEN "MathOverflow" ELSE "Panic"

Err(e) == [err |-> e, val |-> 0]
Val(v) == [err |-> "", val |-> v]

\* fee = amount * fee_bps / 10_000
fee_of(amount, fee_bps) == (amount * fee_bps) \div 10000

\* apply_fee with the fee added instead of subtracted
apply_fee_adds(amount, fee_bps) == Val(amount + fee_of(amount, fee_bps))

\* apply_fee: amount - fee, MathOverflow when the fee exceeds the amount
apply_fee(amount, fee_bps) ==
    LET fee == fee_of(amount, fee_bps)
    IN  IF fee > amount THEN Err("MathOverflow") ELSE Val(amount - fee)

\* dividend_shares * acc_reward_per_share
accumulated_of(st, us) == BNMulInt(st.acc_reward_per_share, us.dividend_shares)

\* pending_rewards: the amount the user can claim now
pending_rewards(i, st, us) ==
    IF us.dividend_shares = 0 THEN Val(us.pending_rewards)
    ELSE LET accumulated == accumulated_of(st, us)
         IN  IF BNLess(accumulated, us.reward_debt) THEN Err(ArithError(i))
             ELSE Val(BNToInt(BNDivPrecision(BNSub(accumulated, us.reward_debt)))
                      + us.pending_rewards)

\* settle_user_rewards: user.pending_rewards += pending_rewards(state, user)
settle_user_rewards(i, st, us) ==
    LET pending == pending_rewards(i, st, us)
    IN  IF pending.err # "" THEN [err |-> pending.err, us |-> us]
        ELSE [err |-> "",
              us |-> [us EXCEPT !.pending_rewards = us.pending_rewards + pending.val]]

\* the reward debt left as it was
reward_debt_kept(st, us) == us.reward_debt

\* the reward debt taken on the pool's dividend shares instead of the user's
reward_debt_of_total(st, us) ==
    BNMulInt(st.acc_reward_per_share, st.total_dividend_shares)

\* the reward debt written after a change: dividend_shares * acc_reward_per_share
reward_debt_of(st, us) == BNMulInt(st.acc_reward_per_share, us.dividend_shares)

\* ---------------------------------------------------------------------------
\* Instructions, as functions from the accounts at entry to the accounts at
\* exit.  A result other than "Ok" aborts the transaction: nothing is kept.
\*
\* clr_vault.amount and xmutr_mint.supply are fields of the accounts as they
\* were deserialized at instruction entry; a token-program call made by the
\* instruction changes the stored account, not the deserialized copy, and
\* neither source reloads it.  A read of either field after a transfer, mint
\* or burn of the same instruction therefore yields the value at entry.
\* ---------------------------------------------------------------------------
Fail(e) == [res |-> e]

\* an error returned after the instruction has issued token-program calls or
\* written account fields: the error, and the accounts as written so far
FailAfter(e, st, us, vault, supply, xbal) ==
    [res |-> e, state |-> st, us |-> us, vault |-> vault,
     supply |-> supply, xbal |-> xbal]

Done(st, us, vault, supply, xbal, out) ==
    [res |-> "Ok", state |-> st, us |-> us, vault |-> vault,
     supply |-> supply, xbal |-> xbal, out |-> out]

\* the share count rounded up instead of down
shares_to_mint_rounds_up(net_amount, xmutr_supply_read, clr_vault_before) ==
    IF xmutr_supply_read = 0 \/ clr_vault_before = 0 THEN net_amount
    ELSE (net_amount * xmutr_supply_read + clr_vault_before - 1)
             \div clr_vault_before

\* stake, step 3: how many xMUTR to mint for net_amount
shares_to_mint(net_amount, xmutr_supply_read, clr_vault_before) ==
    IF xmutr_supply_read = 0 \/ clr_vault_before = 0 THEN net_amount
    ELSE (net_amount * xmutr_supply_read) \div clr_vault_before

\* the owner binding every instruction of the concept performs
bind_owner(us, user) ==
    IF us.owner = NoKey THEN [us EXCEPT !.owner = user] ELSE us

\* the vault balance read after the deposit of the same call
clr_vault_after_deposit(vault_at_entry, amount) == vault_at_entry + amount

\* stake: clr_vault_before, read before the transfer of step 1
clr_vault_before_of(vault_at_entry, amount) == vault_at_entry

stake(i, st, us, vault, supply, xbal, user, amount) ==
    IF amount = 0 THEN Fail("InvalidAmount")
    ELSE
    LET clr_vault_before == clr_vault_before_of(vault, amount)
        vault1 == vault + amount                     \* 1) transfer user -> vault
        net_amount == apply_fee(amount, st.stake_fee_bps)
    IN  IF net_amount.err # ""
        THEN FailAfter(net_amount.err, st, us, vault1, supply, xbal)
        ELSE
        LET shares == shares_to_mint(net_amount.val, supply, clr_vault_before)
            us1 == bind_owner(us, user)
        IN  IF shares = 0
            THEN FailAfter("ZeroShares", st, us, vault1, supply, xbal)
            ELSE IF us1.owner # user                     \* 4) mint, then 5)
            THEN FailAfter("Unauthorized", st, us1, vault1,
                           supply + shares, xbal + shares)
            ELSE Done(st,
                      [us1 EXCEPT !.staked_shares = us.staked_shares + shares],
                      vault1, supply + shares, xbal + shares, shares)

\* the shares taken out of the dividend pool instead of the staked shares
unstake_debit_dividend(us, shares) ==
    [us EXCEPT !.dividend_shares =
                   IF us.dividend_shares >= shares
                   THEN us.dividend_shares - shares ELSE 0]

\* unstake: user_state.staked_shares -= shares
unstake_debit(us, shares) ==
    [us EXCEPT !.staked_shares = us.staked_shares - shares]

\* the supply as it would read had the mint account been reloaded after the burn
unstake_supply_reloaded(supply_at_entry, burned) == supply_at_entry - burned

\* unstake, step 2: the supply read after the burn (the value at entry)
unstake_supply_read(supply_at_entry, burned) == supply_at_entry

\* shares redeemed one for one, whatever the vault holds
mutt_before_fee_at_par(clr_balance, shares, xmutr_supply_read) == shares

\* unstake, step 2: how much MUTR the shares are worth before the fee
mutt_before_fee_of(clr_balance, shares, xmutr_supply_read) ==
    (clr_balance * shares) \div xmutr_supply_read

\* the balance check of unstake
unstake_allowed(i, us, shares) ==
    IF i = "concept" THEN us.staked_shares >= shares
    ELSE us.staked_shares >= shares + us.dividend_shares

unstake(i, st, us, vault, supply, xbal, user, shares) ==
    IF us.owner = NoKey THEN Fail("AccountNotInitialized")
    ELSE IF shares = 0 THEN Fail("InvalidAmount")
    ELSE IF i = "concept" /\ us.owner # user THEN Fail("Unauthorized")
    ELSE IF ~unstake_allowed(i, us, shares) THEN Fail("InsufficientShares")
    ELSE IF xbal < shares THEN Fail("TokenError")       \* 1) burn from user
    ELSE
    LET clr_balance == vault
        xmutr_supply_read == unstake_supply_read(supply, shares)
        us1 == unstake_debit(us, shares)
        burnt(e) == FailAfter(e, st, us1, vault, supply - shares, xbal - shares)
    IN  IF xmutr_supply_read = 0 THEN burnt("ZeroShares")
        ELSE
        LET mutt_before_fee ==
                mutt_before_fee_of(clr_balance, shares, xmutr_supply_read)
            net_amount == apply_fee(mutt_before_fee, st.unstake_fee_bps)
        IN  IF net_amount.err # "" THEN burnt(net_amount.err)
            ELSE IF vault < net_amount.val THEN burnt("TokenError")
            ELSE Done(st, us1,
                      vault - net_amount.val, supply - shares, xbal - shares,
                      net_amount.val)

\* join_dividend_pool: the new total_dividend_shares
total_after_join(total, shares) == total + shares

join_dividend_pool(i, st, us, vault, supply, xbal, user, shares) ==
    IF us.owner = NoKey THEN Fail("AccountNotInitialized")
    ELSE IF shares = 0 THEN Fail("InvalidAmount")
    ELSE IF i = "concept" /\ us.owner # user THEN Fail("Unauthorized")
    ELSE IF us.staked_shares < shares THEN Fail("InsufficientShares")
    ELSE
    LET settled == settle_user_rewards(i, st, us)
    IN  IF settled.err # "" THEN Fail(settled.err)
        ELSE
        LET us1 == [settled.us EXCEPT
                        !.staked_shares = us.staked_shares - shares,
                        !.dividend_shares = us.dividend_shares + shares]
            st1 == [st EXCEPT !.total_dividend_shares =
                                  total_after_join(st.total_dividend_shares, shares)]
        IN  Done(st1, [us1 EXCEPT !.reward_debt = reward_debt_of(st1, us1)],
                 vault, supply, xbal, 0)

\* leave_dividend_pool: the 4% exit fee on shares
exit_fee_shares(shares) == (shares * 400) \div 10000

\* leave_dividend_pool returning the fee shares to staked_shares as well
net_shares_with_fee(shares, fee_shares) == shares

\* leave_dividend_pool: the shares moved back to staked_shares
net_shares_of(shares, fee_shares) == shares - fee_shares

\* leave_dividend_pool without the burn of the fee shares
exit_fee_burned_none(i, fee_shares) == 0

\* leave_dividend_pool: the fee shares burned from the user's xMUTR (the
\* concept burns them with a token-program call; the program makes no call)
exit_fee_burned(i, fee_shares) == IF i = "concept" THEN fee_shares ELSE 0

\* leave_dividend_pool removing only the net shares from the total
total_after_leave_net(total, shares, fee_shares) == total - (shares - fee_shares)

\* leave_dividend_pool: the new total_dividend_shares
total_after_leave(total, shares, fee_shares) == total - shares

leave_dividend_pool(i, st, us, vault, supply, xbal, user, shares) ==
    IF us.owner = NoKey THEN Fail("AccountNotInitialized")
    ELSE IF shares = 0 THEN Fail("InvalidAmount")
    ELSE IF i = "concept" /\ us.owner # user THEN Fail("Unauthorized")
    ELSE IF us.dividend_shares < shares THEN Fail("InsufficientShares")
    ELSE
    LET settled == settle_user_rewards(i, st, us)
    IN  IF settled.err # "" THEN Fail(settled.err)
        ELSE
        LET fee_shares == exit_fee_shares(shares)
            net_shares == net_shares_of(shares, fee_shares)
            burned == exit_fee_burned(i, fee_shares)
            us1 == [settled.us EXCEPT
                        !.dividend_shares = us.dividend_shares - shares,
                        !.staked_shares = us.staked_shares + net_shares]
            st1 == [st EXCEPT !.total_dividend_shares =
                        total_after_leave(st.total_dividend_shares, shares, fee_shares)]
        IN  IF xbal < burned
            THEN FailAfter("TokenError", st1, us1, vault, supply, xbal)
            ELSE Done(st1, [us1 EXCEPT !.reward_debt = reward_debt_of(st1, us1)],
                      vault, supply - burned, xbal - burned, net_shares)

\* the increment with the division made before the scaling
increment_divides_first(profit_amount, total) ==
    BNMulPrecision(BNFromInt(profit_amount \div total))

\* record_profit: profit_amount * REWARD_PRECISION / total_dividend_shares
increment_of(profit_amount, total) ==
    BNDivInt(BNMulPrecision(BNFromInt(profit_amount)), total)

\* record_profit overwriting the accumulator with the increment
acc_after_profit_assign(acc, increment) == increment

\* record_profit: the new acc_reward_per_share
acc_after_profit(acc, increment) == BNAdd(acc, increment)

\* record_profit: the MUTR moved into the vault (the program moves none)
profit_deposit(i, profit_amount) == IF i = "concept" THEN profit_amount ELSE 0

\* the account constraint with every signer accepted
has_one_anyone(st, signer) == TRUE

\* RecordProfit accounts: has_one = authority @ Unauthorized
has_one_authority(st, signer) == st.authority = signer

record_profit(i, st, vault, signer, profit_amount) ==
    IF ~has_one_authority(st, signer) THEN Fail("Unauthorized")
    ELSE IF i = "concept" /\ profit_amount = 0 THEN Fail("InvalidAmount")
    ELSE IF st.total_dividend_shares = 0 THEN Fail("NoDividendShares")
    ELSE
    LET increment == increment_of(profit_amount, st.total_dividend_shares)
    IN  [res |-> "Ok",
         state |-> [st EXCEPT !.acc_reward_per_share =
                                  acc_after_profit(st.acc_reward_per_share, increment)],
         vault |-> vault + profit_deposit(i, profit_amount),
         out |-> 0]

\* claim_rewards zeroing pending_rewards but leaving reward_debt as it was
claim_reset_keeps_debt(st, us) == [us EXCEPT !.pending_rewards = 0]

\* claim_rewards: the accounting update made before the transfer
claim_reset(st, us) ==
    [us EXCEPT !.pending_rewards = 0, !.reward_debt = reward_debt_of(st, us)]

\* a claim with nothing owed treated as an error
nothing_owed_fails(st, us, vault, supply, xbal) == Fail("InvalidAmount")

\* claim_rewards: if pending == 0 { return Ok(()) }
nothing_owed(st, us, vault, supply, xbal) ==
    Done(st, us, vault, supply, xbal, 0)

claim_rewards(i, st, us, vault, supply, xbal, user) ==
    IF us.owner = NoKey THEN Fail("AccountNotInitialized")
    ELSE IF i = "concept" /\ us.owner # user THEN Fail("Unauthorized")
    ELSE
    LET pending == pending_rewards(i, st, us)
    IN  IF pending.err # "" THEN Fail(pending.err)
        ELSE IF pending.val = 0 THEN nothing_owed(st, us, vault, supply, xbal)
        ELSE
        LET us1 == claim_reset(st, us)
        IN  IF vault < pending.val
            THEN FailAfter("TokenError", st, us1, vault, supply, xbal)
            ELSE Done(st, us1, vault - pending.val, supply, xbal, pending.val)

\* a prize debited together with a 1% fee
prize_transfer_with_fee(amount) == amount + (amount + 99) \div 100

\* send_prize: the amount of the token::transfer out of the vault
prize_transfer(amount) == amount

send_prize(i, st, vault, game, amount) ==
    IF amount = 0 THEN Fail("InvalidAmount")
    ELSE IF vault < prize_transfer(amount) THEN Fail("TokenError")
    ELSE [res |-> "Ok", state |-> st, vault |-> vault - prize_transfer(amount),
          out |-> amount]

\* the state account created whether or not it exists already
init_if_needed(st) == TRUE

\* InitializeClr accounts: #[account(init, ...)] creates the state account and
\* fails when the account exists already
init(st) == ~st.initialized

initialize_clr(i, st, authority, stake_fee_bps, unstake_fee_bps) ==
    IF ~init(st) THEN Fail("AlreadyInUse")
    ELSE [res |-> "Ok",
          state |-> [initialized |-> TRUE, authority |-> authority,
                     stake_fee_bps |-> stake_fee_bps,
                     unstake_fee_bps |-> unstake_fee_bps,
                     acc_reward_per_share |-> <<>>,
                     total_dividend_shares |-> 0],
          out |-> 0]

\* ---------------------------------------------------------------------------
\* Actions: one per instruction.  Each is a whole transaction.
\* ---------------------------------------------------------------------------

\* the record of the call in `last`, and of the last committed call in `hist`
Log(op, caller, arg, r) ==
    /\ last' = [op |-> op, caller |-> caller, arg |-> arg, res |-> r.res,
                out |-> IF r.res = "Ok" THEN r.out ELSE 0, pre |-> Snapshot]
    /\ hist' = IF last.res = "Ok"
               THEN [op |-> last.op, caller |-> last.caller, arg |-> last.arg,
                     out |-> last.out]
               ELSE hist
    /\ nops' = IF r.res = "Ok" THEN nops + 1 ELSE nops
    /\ UNCHANGED wide

\* what the instruction wrote to an account, if it wrote it at all
Written(r, field, before) == IF field \in DOMAIN r THEN r[field] ELSE before

\* a transaction that keeps what a failed instruction had written
transaction_keeps_writes(r, before, written) == written

\* The account a transaction leaves behind: what the instruction wrote when
\* it returned Ok, the account at entry when it returned an error (an
\* instruction error reverts every account write and every token-program
\* call of the transaction).
transaction_result(r, before, written) ==
    IF r.res = "Ok" THEN written ELSE before

\* one user account for all signers: seeds without the signer's key
user_state_of_any(user) == "alice"

\* the user account an instruction is given: the address derived from
\* seeds = [.., user.key()], the only one the account constraints accept
user_state_of(user) == user

\* end of an instruction on the reserve and one user's accounts
CommitUser(u, r) ==
    /\ state' = transaction_result(r, state, Written(r, "state", state))
    /\ user_state' = transaction_result(r, user_state,
           [user_state EXCEPT ![user_state_of(u)] =
               Written(r, "us", user_state[user_state_of(u)])])
    /\ clr_vault' = transaction_result(r, clr_vault,
           Written(r, "vault", clr_vault))
    /\ xmutr_supply' = transaction_result(r, xmutr_supply,
           Written(r, "supply", xmutr_supply))
    /\ user_xmutr' = transaction_result(r, user_xmutr,
           [user_xmutr EXCEPT ![u] = Written(r, "xbal", user_xmutr[u])])

\* end of an instruction that has no user accounts
CommitReserve(r) ==
    /\ state' = transaction_result(r, state, Written(r, "state", state))
    /\ clr_vault' = transaction_result(r, clr_vault,
           Written(r, "vault", clr_vault))
    /\ UNCHANGED <<user_state, xmutr_supply, user_xmutr>>

\* every instruction but initialize_clr needs the state account to exist
OnState(r) == IF state.initialized THEN r ELSE Fail("AccountNotInitialized")

InitializeClr(signer, stake_fee_bps, unstake_fee_bps) ==
    LET r == initialize_clr(impl, state, signer, stake_fee_bps, unstake_fee_bps)
        \* the call is recorded with the larger of its two fee arguments
        larger == IF stake_fee_bps >= unstake_fee_bps
                  THEN stake_fee_bps ELSE unstake_fee_bps
    IN  /\ Log("initialize_clr", signer, larger, r)
        /\ state' = transaction_result(r, state, Written(r, "state", state))
        /\ UNCHANGED <<impl, user_state, clr_vault, xmutr_supply, user_xmutr,
                       profit_recorded, rewards_paid>>

\* The model keeps the share supply within MaxSupply, so that every product of
\* the model fits a machine integer of the model checker.
MaxSupply == 100000

Stake(u, amount) ==
    LET r == OnState(stake(impl, state, user_state[user_state_of(u)], clr_vault, xmutr_supply,
                           user_xmutr[u], u, amount))
    IN  /\ r.res = "Ok" => r.supply <= MaxSupply
        /\ Log("stake", u, amount, r)
        /\ CommitUser(u, r)
        /\ UNCHANGED <<impl, profit_recorded, rewards_paid>>

Unstake(u, shares) ==
    LET r == OnState(unstake(impl, state, user_state[user_state_of(u)], clr_vault, xmutr_supply,
                             user_xmutr[u], u, shares))
    IN  /\ Log("unstake", u, shares, r)
        /\ CommitUser(u, r)
        /\ UNCHANGED <<impl, profit_recorded, rewards_paid>>

JoinDividendPool(u, shares) ==
    LET r == OnState(join_dividend_pool(impl, state, user_state[user_state_of(u)], clr_vault,
                                        xmutr_supply, user_xmutr[u], u, shares))
    IN  /\ Log("join_dividend_pool", u, shares, r)
        /\ CommitUser(u, r)
        /\ UNCHANGED <<impl, profit_recorded, rewards_paid>>

LeaveDividendPool(u, shares) ==
    LET r == OnState(leave_dividend_pool(impl, state, user_state[user_state_of(u)], clr_vault,
                                         xmutr_supply, user_xmutr[u], u, shares))
    IN  /\ Log("leave_dividend_pool", u, shares, r)
        /\ CommitUser(u, r)
        /\ UNCHANGED <<impl, profit_recorded, rewards_paid>>

RecordProfit(signer, profit_amount) ==
    LET r == OnState(record_profit(impl, state, clr_vault, signer, profit_amount))
    IN  /\ Log("record_profit", signer, profit_amount, r)
        /\ CommitReserve(r)
        /\ profit_recorded' =
               IF r.res = "Ok" THEN profit_recorded + profit_amount
               ELSE profit_recorded
        /\ UNCHANGED <<impl, rewards_paid>>

ClaimRewards(u) ==
    LET r == OnState(claim_rewards(impl, state, user_state[user_state_of(u)], clr_vault,
                                   xmutr_supply, user_xmutr[u], u))
    IN  /\ Log("claim_rewards", u, 0, r)
        /\ CommitUser(u, r)
        /\ rewards_paid' =
               IF r.res = "Ok" THEN rewards_paid + r.out ELSE rewards_paid
        /\ UNCHANGED <<impl, profit_recorded>>

SendPrize(game, amount) ==
    LET r == OnState(send_prize(impl, state, clr_vault, game, amount))
    IN  /\ Log("send_prize", game, amount, r)
        /\ CommitReserve(r)
        /\ UNCHANGED <<impl, profit_recorded, rewards_paid>>

\* ---------------------------------------------------------------------------
\* Specifications.  The inputs of every instruction are drawn from small sets;
\* the number of committed instructions is bounded.
\* ---------------------------------------------------------------------------
MaxOps == 5

FeeBps == {0, 5000, 20000}

\* the fee arguments of initialize_clr: every pair of the above, and a stake
\* fee of 100%
FeePairs == (FeeBps \X FeeBps) \cup {<<10000, 0>>}
StakeAmounts == {0, 1, 2}
ProfitAmounts == {0, 1, 2}
PrizeAmounts == {0, 1}
Signers == {Admin, "alice"}
PrizeSigners == {Game, "alice"}

\* share arguments: nothing, one, two, and the whole balance
ShareArgs(balance) == {0, 1, 2, balance}

Next ==
    \/ \E f \in FeePairs :
           nops < MaxOps /\ InitializeClr(Admin, f[1], f[2])
    \/ \E u \in Users, a \in StakeAmounts :
           nops < MaxOps /\ Stake(u, a)
    \/ \E u \in Users : \E s \in ShareArgs(user_state[u].staked_shares) :
           nops < MaxOps /\ Unstake(u, s)
    \/ \E u \in Users : \E s \in ShareArgs(user_state[u].staked_shares) :
           nops < MaxOps /\ JoinDividendPool(u, s)
    \/ \E u \in Users : \E s \in ShareArgs(user_state[u].dividend_shares) :
           nops < MaxOps /\ LeaveDividendPool(u, s)
    \/ \E g \in Signers, a \in ProfitAmounts :
           nops < MaxOps /\ RecordProfit(g, a)
    \/ \E u \in Users :
           nops < MaxOps /\ ClaimRewards(u)
    \/ \E g \in PrizeSigners, a \in PrizeAmounts :
           nops < MaxOps /\ SendPrize(g, a)

Spec == Init /\ [][Next]_vars

\* The same instructions on amounts large enough for the 3% and 4% fees to
\* be non-zero (the scenarios of the specification's section 8).
MaxOpsLarge == 6

LargeFeeBps == {0, 300, 10000}
LargeStakeAmounts == {1000}
LargeProfitAmounts == {1000}
LargePrizeAmounts == {1000}

\* share arguments: the whole balance, and 500
LargeShareArgs(balance) == {balance, 500}

NextLarge ==
    \/ \E f \in LargeFeeBps :
           nops < MaxOpsLarge /\ InitializeClr(Admin, f, f)
    \/ \E u \in Users, a \in LargeStakeAmounts :
           nops < MaxOpsLarge /\ Stake(u, a)
    \/ \E u \in Users : \E s \in LargeShareArgs(user_state[u].staked_shares) :
           nops < MaxOpsLarge /\ Unstake(u, s)
    \/ \E u \in Users : \E s \in LargeShareArgs(user_state[u].staked_shares) :
           nops < MaxOpsLarge /\ JoinDividendPool(u, s)
    \/ \E u \in Users : \E s \in LargeShareArgs(user_state[u].dividend_shares) :
           nops < MaxOpsLarge /\ LeaveDividendPool(u, s)
    \/ \E a \in LargeProfitAmounts :
           nops < MaxOpsLarge /\ RecordProfit(Admin, a)
    \/ \E u \in Users :
           nops < MaxOpsLarge /\ ClaimRewards(u)
    \/ \E a \in LargePrizeAmounts :
           nops < MaxOpsLarge /\ SendPrize(Game, a)

SpecLarge == Init /\ [][NextLarge]_vars

\* The same amounts with every instruction but send_prize: the sequences in
\* which nothing but unstake and claim_rewards takes tokens out of the vault.
NextNoPrize ==
    \/ \E f \in LargeFeeBps :
           nops < MaxOpsLarge /\ InitializeClr(Admin, f, f)
    \/ \E u \in Users, a \in LargeStakeAmounts :
           nops < MaxOpsLarge /\ Stake(u, a)
    \/ \E u \in Users : \E s \in LargeShareArgs(user_state[u].staked_shares) :
           nops < MaxOpsLarge /\ Unstake(u, s)
    \/ \E u \in Users : \E s \in LargeShareArgs(user_state[u].staked_shares) :
           nops < MaxOpsLarge /\ JoinDividendPool(u, s)
    \/ \E u \in Users : \E s \in LargeShareArgs(user_state[u].dividend_shares) :
           nops < MaxOpsLarge /\ LeaveDividendPool(u, s)
    \/ \E a \in LargeProfitAmounts :
           nops < MaxOpsLarge /\ RecordProfit(Admin, a)
    \/ \E u \in Users :
           nops < MaxOpsLarge /\ ClaimRewards(u)

SpecNoPrize == Init /\ [][NextNoPrize]_vars

\* ---------------------------------------------------------------------------
\* The 64-bit narrowings.  The instructions above run on amounts far below
\* 2^64, where every narrowing returns its operand.  Here the four
\* computations that narrow a u128 to a u64 are taken on full-width operands,
\* held as limb sequences.  The operands of each product are u64 (or u16)
\* values, so the u128 product itself cannot overflow.
\* ---------------------------------------------------------------------------

\* u64::MAX + 1 = 18446744073709551616
TwoTo64 == <<1616, 955, 737, 6744, 1844>>

RECURSIVE BNMulFrom(_, _, _)
BNMulFrom(a, b, k) ==
    IF k > Len(b) THEN <<>>
    ELSE BNAdd(BNMulInt(a, b[k]), BNNorm(<<0>> \o BNMulFrom(a, b, k + 1)))

\* a * b
BNMul(a, b) == BNNorm(BNMulFrom(a, b, 1))

\* r mod 2^64 for r < 2^14 * 2^64, by binary long division (the set
\* constructor makes each partial remainder a value before the next step)
RECURSIVE BNReduce64(_, _)
BNReduce64(r, j) ==
    IF j < 0 THEN r
    ELSE LET d == BNMulInt(TwoTo64, 2^j)
         IN  CHOOSE q \in { BNReduce64(v, j - 1) :
                                v \in {IF BNLeq(d, r) THEN BNSub(r, d) ELSE r} } :
                 TRUE

\* (a[k..] as a number) mod 2^64, one limb at a time from the top
RECURSIVE BNMod64From(_, _)
BNMod64From(a, k) ==
    IF k > Len(a) THEN <<>>
    ELSE CHOOSE q \in { BNReduce64(BNAdd(BNNorm(<<a[k]>>), BNNorm(<<0>> \o h)), 13) :
                           h \in {BNMod64From(a, k + 1)} } : TRUE

\* a mod 2^64
BNMod64(a) == BNMod64From(a, 1)

WErr(e) == [err |-> e, val |-> <<>>]
WVal(v) == [err |-> "", val |-> v]

\* u64::try_from(raw).map_err(|_| MathOverflow)
try_from_u64(raw) ==
    IF BNLess(raw, TwoTo64) THEN WVal(raw) ELSE WErr("MathOverflow")

\* raw as u64
as_u64(raw) == WVal(BNMod64(raw))

\* how each implementation narrows a u128 to a u64
narrow_u64(i, raw) == IF i = "concept" THEN try_from_u64(raw) ELSE as_u64(raw)

\* stake, step 3, before the narrowing: net_amount * xmutr_supply / clr_vault_before
raw_shares_of(net_amount, xmutr_supply_read, clr_vault_before) ==
    BNDivInt(BNMul(net_amount, xmutr_supply_read), clr_vault_before)

\* stake, step 3, and the ZeroShares check that follows it
wide_shares_to_mint(i, net_amount, xmutr_supply_read, clr_vault_before) ==
    LET shares ==
            IF xmutr_supply_read = <<>> \/ clr_vault_before = 0
            THEN WVal(net_amount)
            ELSE narrow_u64(i, raw_shares_of(net_amount, xmutr_supply_read,
                                             clr_vault_before))
    IN  IF shares.err = "" /\ shares.val = <<>> THEN WErr("ZeroShares")
        ELSE shares

\* apply_fee before the narrowing: amount * fee_bps / 10_000
fee_u128_of(amount, fee_bps) == BNDivInt(BNMulInt(amount, fee_bps), 10000)

\* apply_fee
wide_apply_fee(i, amount, fee_bps) ==
    LET fee == narrow_u64(i, fee_u128_of(amount, fee_bps))
    IN  IF fee.err # "" THEN fee
        ELSE IF BNLess(amount, fee.val) THEN WErr("MathOverflow")
        ELSE WVal(BNSub(amount, fee.val))

\* pending_rewards before the narrowing
pending_u128_of(dividend_shares, acc_per_share, reward_debt, pending) ==
    IF dividend_shares = 0 THEN pending
    ELSE BNAdd(BNDivPrecision(BNSub(BNMulInt(acc_per_share, dividend_shares),
                                    reward_debt)),
               pending)

\* pending_rewards
wide_pending_rewards(i, dividend_shares, acc_per_share, reward_debt, pending) ==
    IF dividend_shares # 0
       /\ BNLess(BNMulInt(acc_per_share, dividend_shares), reward_debt)
    THEN WErr(ArithError(i))
    ELSE narrow_u64(i, pending_u128_of(dividend_shares, acc_per_share,
                                       reward_debt, pending))

\* unstake, step 2, before the narrowing: clr_balance * shares / xmutr_supply
mutt_before_fee_u128_of(clr_balance, shares, xmutr_supply_read) ==
    BNDivInt(BNMulInt(clr_balance, shares), xmutr_supply_read)

\* unstake, step 2
wide_mutt_before_fee(i, clr_balance, shares, xmutr_supply_read) ==
    narrow_u64(i, mutt_before_fee_u128_of(clr_balance, shares, xmutr_supply_read))

\* u64 operands: 1, 2^32, 2^32 + 1, 2^63 and u64::MAX
BigAmounts ==
    { <<1>>, <<7296, 9496, 42>>, <<7297, 9496, 42>>,
      <<5808, 5477, 368, 3372, 922>>, <<1615, 955, 737, 6744, 1844>> }

\* small u64 operands
SmallAmounts == {1, 2, 3}

\* u16 fee arguments, up to u16::MAX
WideFeeBps == {0, 300, 10000, 65535}

\* acc_reward_per_share values: 0 and 2^32 * 10^12
WideAccs == { <<>>, <<0, 0, 0, 7296, 9496, 42>> }

WideCall(op, x, y, n, m) == [NoWide EXCEPT !.op = op, !.x = x, !.y = y,
                                            !.n = n, !.m = m]

WideCalls ==
    { WideCall("stake", x, y, n, 0) :
          x \in BigAmounts, y \in BigAmounts, n \in SmallAmounts }
    \cup { WideCall("apply_fee", x, <<>>, n, 0) :
          x \in BigAmounts, n \in WideFeeBps }
    \cup { WideCall("pending_rewards", x, y, n, 0) :
          x \in BigAmounts, y \in WideAccs, n \in {0} \cup SmallAmounts }
    \cup { WideCall("unstake", x, <<>>, p[1], p[2]) :
          x \in BigAmounts,
          p \in {q \in SmallAmounts \X SmallAmounts : q[1] <= q[2]} }

InitWide == InitAccounts /\ wide \in WideCalls

WideDone(exact, out) ==
    /\ ~wide.done
    /\ wide' = [wide EXCEPT !.done = TRUE, !.exact = exact, !.out = out]
    /\ UNCHANGED <<impl, state, user_state, clr_vault, xmutr_supply, user_xmutr,
                   profit_recorded, rewards_paid, nops, last, hist>>

WideStake ==
    /\ wide.op = "stake"
    /\ WideDone(raw_shares_of(wide.x, wide.y, wide.n),
                wide_shares_to_mint(impl, wide.x, wide.y, wide.n))

WideApplyFee ==
    /\ wide.op = "apply_fee"
    /\ WideDone(fee_u128_of(wide.x, wide.n), wide_apply_fee(impl, wide.x, wide.n))

WidePendingRewards ==
    /\ wide.op = "pending_rewards"
    /\ WideDone(pending_u128_of(wide.n, wide.y, <<>>, wide.x),
                wide_pending_rewards(impl, wide.n, wide.y, <<>>, wide.x))

WideUnstake ==
    /\ wide.op = "unstake"
    /\ WideDone(mutt_before_fee_u128_of(wide.x, wide.n, wide.m),
                wide_mutt_before_fee(impl, wide.x, wide.n, wide.m))

NextWide == WideStake \/ WideApplyFee \/ WidePendingRewards \/ WideUnstake

SpecWide == InitWide /\ [][NextWide]_vars

\* ---------------------------------------------------------------------------
\* Properties
\* ---------------------------------------------------------------------------
RECURSIVE SumOver(_, _)
SumOver(f, S) ==
    IF S = {} THEN 0
    ELSE LET x == CHOOSE y \in S : TRUE IN f[x] + SumOver(f, S \ {x})

\* pendingRewards + floor((dividendShares * rewardAccumulator - rewardDebt) / 10^12)
Claimable(st, us) ==
    LET accumulated == BNMulInt(st.acc_reward_per_share, us.dividend_shares)
    IN  us.pending_rewards
        + (IF BNLess(accumulated, us.reward_debt) THEN 0
           ELSE BNToInt(BNDivPrecision(BNSub(accumulated, us.reward_debt))))

TotalClaimable == SumOver([u \in Users |-> Claimable(state, user_state[u])], Users)

TotalShares ==
    SumOver([u \in Users |-> user_state[u].staked_shares
                             + user_state[u].dividend_shares], Users)

TotalDividend == SumOver([u \in Users |-> user_state[u].dividend_shares], Users)

Committed(op) == last.op = op /\ last.res = "Ok"

\* C1: reward conservation: in every reachable state the sum over all
\* participants of the claimable amount is at most the total amount passed to
\* successful record_profit calls minus the total already paid by claim_rewards.
C1_RewardConservation == TotalClaimable <= profit_recorded - rewards_paid

\* C2: conservation in the concept implementation: after every committed
\* instruction the sum over all participants of staked_shares + dividend_shares
\* equals the share supply (minted minus burned).
C2_ShareConservation == impl = "concept" => TotalShares = xmutr_supply

\* C2 witness: the concept has committed a leave_dividend_pool that burned a
\* non-zero exit fee from the supply, while another participant holds shares.
C2_Witness ==
    /\ impl = "concept"
    /\ Committed("leave_dividend_pool")
    /\ xmutr_supply < last.pre.xmutr_supply
    /\ \E u \in Users \ {last.caller} :
           user_state[u].staked_shares + user_state[u].dividend_shares > 0
    /\ TotalShares = xmutr_supply

\* C3: in every reachable state of both implementations total_dividend_shares
\* equals the sum of dividend_shares over all participants.
C3_TotalDividendShares == state.total_dividend_shares = TotalDividend

\* C3 witness: a leave_dividend_pool with a non-zero exit fee has committed and
\* dividend shares of both participants remain enrolled.
C3_Witness ==
    /\ Committed("leave_dividend_pool")
    /\ exit_fee_shares(last.arg) > 0
    /\ \A u \in Users : user_state[u].dividend_shares > 0
    /\ state.total_dividend_shares = TotalDividend

\* C4: acc_reward_per_share never decreases: after any instruction, failed or
\* committed, it is at least its value before the instruction.
C4_AccumulatorMonotone ==
    BNLeq(last.pre.state.acc_reward_per_share, state.acc_reward_per_share)

\* C4 witness: a record_profit has committed on a non-zero accumulator and
\* increased it.
C4_Witness ==
    /\ Committed("record_profit")
    /\ last.pre.state.acc_reward_per_share # <<>>
    /\ BNLess(last.pre.state.acc_reward_per_share, state.acc_reward_per_share)

\* C5: no retroactive earning: a participant's claimable amount immediately
\* after a committed join_dividend_pool equals the claimable amount immediately
\* before it.
C5_NoRetroactiveEarning ==
    Committed("join_dividend_pool") =>
        Claimable(state, user_state[last.caller])
            = Claimable(last.pre.state, last.pre.user_state[last.caller])

C7_SharePriceMonotone ==
    (/\ Committed("stake") \/ Committed("unstake")
     /\ last.pre.xmutr_supply > 0
     /\ xmutr_supply > 0) =>
        clr_vault * last.pre.xmutr_supply >= last.pre.clr_vault * xmutr_supply

\* C7 witness: an unstake of part of the supply has committed with a fee
\* retained, and the ratio is strictly higher than before.
C7_Witness ==
    /\ Committed("unstake")
    /\ xmutr_supply > 0
    /\ state.unstake_fee_bps > 0
    /\ clr_vault * last.pre.xmutr_supply > last.pre.clr_vault * xmutr_supply

RatioKept ==
    (last.pre.xmutr_supply > 0 /\ xmutr_supply > 0) =>
        clr_vault * last.pre.xmutr_supply >= last.pre.clr_vault * xmutr_supply

\* C8 as stated: every committed stake, unstake, join_dividend_pool,
\* leave_dividend_pool, record_profit and claim_rewards keeps V' * S >= V * S',
\* send_prize being the only instruction that lowers the ratio.
C8_Original ==
    (/\ last.op \in {"stake", "unstake", "join_dividend_pool",
                     "leave_dividend_pool", "record_profit", "claim_rewards"}
     /\ last.res = "Ok") => RatioKept

\* C8 as amended: send_prize and claim_rewards are the only instructions that
\* reduce the vault balance without burning shares, and every committed stake,
\* unstake, join_dividend_pool, leave_dividend_pool and record_profit keeps
\* V' * S >= V * S'.
C8_Amended ==
    /\ (/\ last.op \in {"stake", "unstake", "join_dividend_pool",
                        "leave_dividend_pool", "record_profit"}
        /\ last.res = "Ok") => RatioKept
    /\ (clr_vault < last.pre.clr_vault /\ xmutr_supply = last.pre.xmutr_supply)
           => last.op \in {"send_prize", "claim_rewards"}

\* C8 witness: a claim_rewards has committed and lowered the ratio of vault
\* balance to share supply.
C8_Witness ==
    /\ Committed("claim_rewards")
    /\ xmutr_supply > 0
    /\ xmutr_supply = last.pre.xmutr_supply
    /\ clr_vault * last.pre.xmutr_supply < last.pre.clr_vault * xmutr_supply

\* the scenario of C9: fees of 300 bps, a stake of 1000 into the empty reserve
ScenarioStake ==
    /\ Committed("stake")
    /\ last.arg = 1000
    /\ last.pre.clr_vault = 0
    /\ last.pre.xmutr_supply = 0
    /\ state.stake_fee_bps = 300
    /\ state.unstake_fee_bps = 300

\* ... followed by the unstake of the 970 shares by the same user
ScenarioUnstake ==
    /\ last.op = "unstake"
    /\ last.arg = 970
    /\ hist.op = "stake"
    /\ hist.caller = last.caller
    /\ hist.arg = 1000
    /\ last.pre.clr_vault = 1000
    /\ last.pre.xmutr_supply = 970
    /\ state.stake_fee_bps = 300
    /\ state.unstake_fee_bps = 300

ScenarioMints970 ==
    ScenarioStake =>
        /\ last.out = 970
        /\ xmutr_supply = 970
        /\ user_state[last.caller].staked_shares = 970
        /\ user_xmutr[last.caller] = 970

\* C9 as stated: from the empty reserve with both fees at 300 bps, stake(1000)
\* mints exactly 970 shares and the following unstake(970) pays exactly 940.
C9_Original ==
    /\ ScenarioMints970
    /\ ScenarioUnstake => (last.res = "Ok" /\ last.out = 940)

\* C9 as amended: from the empty reserve with both fees at 300 bps, stake(1000)
\* mints exactly 970 shares and the following unstake(970) pays exactly 970:
\* the 970 shares are the whole supply and redeem the whole vault of 1000, less
\* the fee of 30.
C9_Amended ==
    /\ ScenarioMints970
    /\ ScenarioUnstake =>
           /\ last.res = "Ok"
           /\ last.out = 970
           /\ clr_vault = 30
           /\ xmutr_supply = 0

\* C9 witness: the unstake of the scenario has committed.
C9_Witness == ScenarioUnstake /\ last.res = "Ok"

\* floor(a * 10^12 / t), computed apart from the model of record_profit
FloorScaled(a, t) == BNDivInt(<<0, 0, 0>> \o BNFromInt(a), t)

\* C10's premise at the claim_rewards in `last`: the committed instruction
\* before it was record_profit(a) with total_dividend_shares = T > 0, and before
\* that record_profit the caller had pending_rewards = 0 and
\* reward_debt = d * acc_reward_per_share.
ProRataPremise ==
    LET us == last.pre.user_state[last.caller]
        st == last.pre.state
        inc == FloorScaled(hist.arg, st.total_dividend_shares)
    IN  /\ last.op = "claim_rewards"
        /\ hist.op = "record_profit"
        /\ hist.arg > 0
        /\ us.owner # NoKey
        /\ us.pending_rewards = 0
        /\ us.dividend_shares <= st.total_dividend_shares
        /\ us.reward_debt
               = BNMulInt(BNSub(st.acc_reward_per_share, inc), us.dividend_shares)

ProRataPaid ==
    LET us == last.pre.user_state[last.caller]
        st == last.pre.state
        inc == FloorScaled(hist.arg, st.total_dividend_shares)
    IN  BNToInt(BNDivPrecision(BNMulInt(inc, us.dividend_shares)))

ApprovedGames == {Game}

\* C11: a send_prize call whose game signer is not an approved game fails and
\* leaves the vault balance as it was.
C11_ApprovedCallerOnly ==
    (last.op = "send_prize" /\ last.pre.state.initialized
        /\ last.caller \notin ApprovedGames)
    => (last.res # "Ok" /\ clr_vault = last.pre.clr_vault)

\* C12: a record_profit call by an identity other than the stored authority
\* fails with Unauthorized and leaves acc_reward_per_share,
\* total_dividend_shares and the vault balance as they were.
C12_AdminOnly ==
    (last.op = "record_profit" /\ last.pre.state.initialized
        /\ last.caller # last.pre.state.authority)
    => /\ last.res = "Unauthorized"
       /\ state.acc_reward_per_share = last.pre.state.acc_reward_per_share
       /\ state.total_dividend_shares = last.pre.state.total_dividend_shares
       /\ clr_vault = last.pre.clr_vault

\* a stranger calls record_profit with an amount and a pool that would
\* otherwise be accepted
C12_Witness ==
    /\ last.op = "record_profit" /\ last.caller # state.authority
    /\ last.res = "Unauthorized" /\ last.arg > 0
    /\ state.total_dividend_shares > 0

\* C13: record_profit(0) fails with InvalidAmount, and record_profit called
\* while total_dividend_shares = 0 fails with NoDividendShares, in both
\* implementations; acc_reward_per_share and the vault balance are unchanged.
C13_RecordProfitGuards ==
    (last.op = "record_profit" /\ last.pre.state.initialized
        /\ last.caller = last.pre.state.authority)
    => /\ (last.arg = 0 /\ last.pre.state.total_dividend_shares > 0)
            => last.res = "InvalidAmount"
       /\ (last.arg > 0 /\ last.pre.state.total_dividend_shares = 0)
            => last.res = "NoDividendShares"
       /\ (last.arg = 0 \/ last.pre.state.total_dividend_shares = 0)
            => /\ last.res \in {"InvalidAmount", "NoDividendShares"}
               /\ state.acc_reward_per_share = last.pre.state.acc_reward_per_share
               /\ clr_vault = last.pre.clr_vault

\* C14: a successful record_profit(amount) raises the vault balance by exactly
\* amount and acc_reward_per_share by exactly
\* floor(amount * 10^12 / total_dividend_shares), and leaves
\* total_dividend_shares, the share supply and every UserState unchanged, in
\* both implementations.
C14_RecordProfitEffect ==
    (last.op = "record_profit" /\ last.res = "Ok")
    => /\ clr_vault = last.pre.clr_vault + last.arg
       /\ state.acc_reward_per_share =
              BNAdd(last.pre.state.acc_reward_per_share,
                    BNDivInt(BNMulPrecision(BNFromInt(last.arg)),
                             last.pre.state.total_dividend_shares))
       /\ state.total_dividend_shares = last.pre.state.total_dividend_shares
       /\ xmutr_supply = last.pre.xmutr_supply
       /\ user_state = last.pre.user_state

\* C15: initialize_clr rejects a stake or unstake fee above 10000 basis
\* points, so the stored fees of an initialized reserve lie in [0, 10000].
C15_FeesInRange ==
    /\ (last.op = "initialize_clr" /\ last.arg > 10000) => last.res # "Ok"
    /\ state.initialized
        => /\ state.stake_fee_bps \in 0..10000
           /\ state.unstake_fee_bps \in 0..10000

\* C16: in both implementations unstake(shares) with shares > 0 is rejected
\* with InsufficientShares exactly when shares > staked_shares, whatever the
\* caller's dividend_shares.
C16_UnstakeCheck ==
    (last.op = "unstake" /\ last.pre.state.initialized /\ last.arg > 0
        /\ last.pre.user_state[last.caller].owner # NoKey)
    => (last.res = "InsufficientShares"
            <=> last.arg > last.pre.user_state[last.caller].staked_shares)

C17_UnstakeFailsAfterBurn ==
    last.op = "unstake" /\ last.arg > 0 /\ last.res \in {"MathOverflow", "Panic"}

\* C18: in both implementations, when the wide value of stake's share count,
\* of unstake's gross amount, of the fee in apply_fee or of the pending
\* reward exceeds 2^64 - 1, the computation fails with MathOverflow.
C18_NoSilentTruncation ==
    (wide.done /\ BNLeq(TwoTo64, wide.exact)) => wide.out.err = "MathOverflow"

\* C19: in both implementations and in every reachable state, each user's
\* staked_shares + dividend_shares is at most the xMUTR minted to that user
\* minus the xMUTR burned from that user (the user's xMUTR balance, shares
\* being moved by the mint and burn calls of these instructions only).
C19_SharesBackedByBalance ==
    \A u \in Users :
        user_state[u].staked_shares + user_state[u].dividend_shares
            <= user_xmutr[u]

\* a user has left the dividend pool and paid a non-zero exit fee
C19_Witness ==
    /\ Committed("leave_dividend_pool") /\ last.out < last.arg
    /\ user_state[last.caller].staked_shares > 0
    /\ user_state[last.caller].dividend_shares > 0

\* the share amount of a stake is zero: the net amount is zero in an empty
\* reserve, or net amount * supply < vault balance otherwise
StakeRoundsToZero ==
    LET a == last.arg
        fee == (a * last.pre.state.stake_fee_bps) \div 10000
        S == last.pre.xmutr_supply
        V == last.pre.clr_vault
    IN  /\ a > 0 /\ fee <= a
        /\ IF S = 0 \/ V = 0 THEN a - fee = 0 ELSE (a - fee) * S < V

\* C20: stake(0) fails with InvalidAmount, and a stake whose computed share
\* amount is zero fails with ZeroShares; in neither case are shares minted,
\* staked_shares credited or the vault balance changed.
C20_StakeGuards ==
    (last.op = "stake" /\ last.pre.state.initialized)
    => /\ last.arg = 0 => last.res = "InvalidAmount"
       /\ StakeRoundsToZero => last.res = "ZeroShares"
       /\ (last.arg = 0 \/ StakeRoundsToZero)
            => /\ xmutr_supply = last.pre.xmutr_supply
               /\ user_xmutr = last.pre.user_xmutr
               /\ user_state = last.pre.user_state
               /\ clr_vault = last.pre.clr_vault

\* a stake of a non-zero amount into a reserve whose shares are worth more
\* than the net amount
C20_Witness ==
    /\ last.op = "stake" /\ last.res = "ZeroShares" /\ StakeRoundsToZero
    /\ last.pre.xmutr_supply > 0 /\ last.pre.state.stake_fee_bps < 10000

\* a stake whose fee consumes the whole amount
C20_FeeConsumesAll ==
    /\ last.op = "stake" /\ last.res = "ZeroShares" /\ StakeRoundsToZero
    /\ last.pre.state.stake_fee_bps = 10000

\* ---------------------------------------------------------------------------
\* The instructions one by one
\* ---------------------------------------------------------------------------

\* C21: once initialize_clr has succeeded every later initialize_clr fails and
\* leaves the GlobalState unchanged; a fresh GlobalState has
\* acc_reward_per_share = 0 and total_dividend_shares = 0.
C21_InitializeOnce ==
    last.op = "initialize_clr"
    => /\ last.pre.state.initialized
            => (last.res # "Ok" /\ state = last.pre.state)
       /\ last.res = "Ok"
            => /\ ~last.pre.state.initialized
               /\ state.acc_reward_per_share = <<>>
               /\ state.total_dividend_shares = 0

\* initialize_clr is called again, with other fees, on a reserve that has
\* dividend shares and a non-zero accumulator
C21_Witness ==
    /\ last.op = "initialize_clr" /\ last.pre.state.initialized
    /\ last.arg # 0 /\ last.pre.state.stake_fee_bps = 0
    /\ last.pre.state.unstake_fee_bps = 0
    /\ state.total_dividend_shares > 0
    /\ state.acc_reward_per_share # <<>>

\* floor((dividend_shares * acc_reward_per_share - reward_debt) / 10^12)
FreshDelta(st, us) ==
    BNToInt(BNDivPrecision(BNSub(BNMulInt(st.acc_reward_per_share,
                                          us.dividend_shares),
                                 us.reward_debt)))

\* C22: the settlement made by join_dividend_pool and leave_dividend_pool
\* leaves pending_rewards equal to its previous value plus the fresh delta,
\* and equal to its previous value when dividend_shares = 0.
C22_SettleAddsFreshDelta ==
    (Committed("join_dividend_pool") \/ Committed("leave_dividend_pool"))
    => LET before == last.pre.user_state[last.caller]
       IN  user_state[last.caller].pending_rewards =
               IF before.dividend_shares = 0 THEN before.pending_rewards
               ELSE before.pending_rewards + FreshDelta(last.pre.state, before)

\* amount - floor(amount * fee_bps / 10000)
NetOf(amount, fee_bps) == amount - (amount * fee_bps) \div 10000

\* C23: a successful stake(amount) mints and credits to the caller's
\* staked_shares exactly net = amount - floor(amount * stake_fee_bps / 10000)
\* shares when the supply or the vault balance was zero before the call, and
\* floor(net * S / V) shares otherwise, S and V being the supply and the
\* vault balance before the call; the vault balance grows by the full amount.
C23_StakeEffect ==
    Committed("stake")
    => LET u == last.caller
           S == last.pre.xmutr_supply
           V == last.pre.clr_vault
           net == NetOf(last.arg, last.pre.state.stake_fee_bps)
           minted == IF S = 0 \/ V = 0 THEN net ELSE (net * S) \div V
       IN  /\ xmutr_supply = S + minted
           /\ user_xmutr[u] = last.pre.user_xmutr[u] + minted
           /\ user_state[u].staked_shares =
                  last.pre.user_state[u].staked_shares + minted
           /\ clr_vault = V + last.arg

\* a stake with a non-zero fee into a reserve whose vault balance differs
\* from its share supply
C23_Witness ==
    /\ Committed("stake")
    /\ last.pre.xmutr_supply > 0 /\ last.pre.clr_vault > 0
    /\ last.pre.clr_vault # last.pre.xmutr_supply
    /\ NetOf(last.arg, last.pre.state.stake_fee_bps) < last.arg

\* C23 on full-width operands: a stake into a non-empty reserve that passes
\* the share computation mints exactly floor(net * S / V).
C23_StakeMintsExact ==
    (wide.done /\ wide.op = "stake" /\ wide.out.err = "")
    => wide.out.val = wide.exact

\* C24: a successful unstake(shares) pays gross - floor(gross *
\* unstake_fee_bps / 10000) with gross = floor(V * shares / S), V and S being
\* the vault balance and the supply before the call; it lowers the supply and
\* the caller's staked_shares by shares and the vault balance by the amount
\* paid; the holder of the whole supply is never refused with ZeroShares.
C24_UnstakeEffect ==
    /\ Committed("unstake")
        => LET u == last.caller
               S == last.pre.xmutr_supply
               V == last.pre.clr_vault
               gross == (V * last.arg) \div S
               paid == NetOf(gross, last.pre.state.unstake_fee_bps)
           IN  /\ last.out = paid
               /\ clr_vault = V - paid
               /\ xmutr_supply = S - last.arg
               /\ user_xmutr[u] = last.pre.user_xmutr[u] - last.arg
               /\ user_state[u].staked_shares =
                      last.pre.user_state[u].staked_shares - last.arg
    /\ (last.op = "unstake" /\ last.arg > 0
            /\ last.arg = last.pre.xmutr_supply)
        => last.res # "ZeroShares"

\* the holder of the whole supply unstakes all of it, with a non-zero fee,
\* from a vault that holds more than the supply
C24_Witness ==
    /\ Committed("unstake") /\ last.arg = last.pre.xmutr_supply
    /\ last.pre.clr_vault > last.pre.xmutr_supply
    /\ last.out < (last.pre.clr_vault * last.arg) \div last.pre.xmutr_supply

\* C24 on full-width operands: an apply_fee that returns a net amount returns
\* amount - floor(amount * fee_bps / 10000).
C24_NetIsGrossMinusFee ==
    (wide.done /\ wide.op = "apply_fee" /\ wide.out.err = "")
    => /\ BNLeq(wide.exact, wide.x)
       /\ wide.out.val = BNSub(wide.x, wide.exact)

\* C25: join_dividend_pool(shares) fails with InvalidAmount when shares = 0
\* and with InsufficientShares when shares > staked_shares; on success it
\* moves shares from staked_shares to dividend_shares, adds shares to
\* total_dividend_shares, sets reward_debt = dividend_shares *
\* acc_reward_per_share (after the join), and leaves acc_reward_per_share,
\* the vault balance, the supply and staked_shares + dividend_shares
\* unchanged.
C25_JoinEffect ==
    (last.op = "join_dividend_pool" /\ last.pre.state.initialized
        /\ last.pre.user_state[last.caller].owner # NoKey)
    => LET before == last.pre.user_state[last.caller]
           after == user_state[last.caller]
       IN  /\ last.arg = 0 => last.res = "InvalidAmount"
           /\ last.arg > before.staked_shares
                => last.res = "InsufficientShares"
           /\ last.res = "Ok"
                => /\ after.staked_shares = before.staked_shares - last.arg
                   /\ after.dividend_shares = before.dividend_shares + last.arg
                   /\ state.total_dividend_shares =
                          last.pre.state.total_dividend_shares + last.arg
                   /\ after.reward_debt =
                          BNMulInt(state.acc_reward_per_share,
                                   after.dividend_shares)
                   /\ state.acc_reward_per_share =
                          last.pre.state.acc_reward_per_share
                   /\ clr_vault = last.pre.clr_vault
                   /\ xmutr_supply = last.pre.xmutr_supply
                   /\ after.staked_shares + after.dividend_shares =
                          before.staked_shares + before.dividend_shares

\* a join of more shares by a user already in the pool, after a profit
C25_Witness ==
    /\ Committed("join_dividend_pool")
    /\ last.pre.user_state[last.caller].dividend_shares > 0
    /\ state.acc_reward_per_share # <<>>
    /\ user_state[last.caller].staked_shares > 0

\* C26: in both implementations a successful leave_dividend_pool(shares)
\* burns exactly fee_shares = floor(shares * 400 / 10000) from the supply,
\* adds shares - fee_shares to staked_shares, subtracts shares from
\* dividend_shares and total_dividend_shares, sets reward_debt =
\* dividend_shares * acc_reward_per_share (after the exit) and leaves the
\* vault balance unchanged.
C26_LeaveEffect ==
    Committed("leave_dividend_pool")
    => LET before == last.pre.user_state[last.caller]
           after == user_state[last.caller]
           feeShares == (last.arg * 400) \div 10000
       IN  /\ xmutr_supply = last.pre.xmutr_supply - feeShares
           /\ after.staked_shares =
                  before.staked_shares + (last.arg - feeShares)
           /\ after.dividend_shares = before.dividend_shares - last.arg
           /\ state.total_dividend_shares =
                  last.pre.state.total_dividend_shares - last.arg
           /\ after.reward_debt =
                  BNMulInt(state.acc_reward_per_share, after.dividend_shares)
           /\ clr_vault = last.pre.clr_vault

\* C27: a claim_rewards whose pending amount is non-zero pays exactly
\* pending_rewards + floor((dividend_shares * acc_reward_per_share -
\* reward_debt) / 10^12) from the vault, sets pending_rewards = 0 and
\* reward_debt = dividend_shares * acc_reward_per_share, and leaves
\* staked_shares, dividend_shares, total_dividend_shares,
\* acc_reward_per_share and the supply unchanged.
C27_ClaimEffect ==
    (Committed("claim_rewards") /\ last.out # 0)
    => LET before == last.pre.user_state[last.caller]
           after == user_state[last.caller]
       IN  /\ last.out = before.pending_rewards
                            + (IF before.dividend_shares = 0 THEN 0
                               ELSE FreshDelta(last.pre.state, before))
           /\ clr_vault = last.pre.clr_vault - last.out
           /\ after.pending_rewards = 0
           /\ after.reward_debt =
                  BNMulInt(state.acc_reward_per_share, before.dividend_shares)
           /\ after.staked_shares = before.staked_shares
           /\ after.dividend_shares = before.dividend_shares
           /\ state = last.pre.state
           /\ xmutr_supply = last.pre.xmutr_supply

\* a claim by a user in the dividend pool that pays a non-zero amount
C27_Witness ==
    /\ Committed("claim_rewards") /\ last.out > 0
    /\ user_state[last.caller].dividend_shares > 0
    /\ user_state[last.caller].reward_debt # <<>>

PendingOf(st, us) ==
    us.pending_rewards
        + (IF us.dividend_shares = 0 THEN 0 ELSE FreshDelta(st, us))

\* C28: when the pending amount of the caller is 0, claim_rewards returns Ok,
\* makes no transfer and leaves the UserState (reward_debt included), the
\* GlobalState and the vault balance unchanged.
C28_ClaimNothingOwed ==
    (last.op = "claim_rewards" /\ last.pre.state.initialized
        /\ last.pre.user_state[last.caller].owner # NoKey
        /\ PendingOf(last.pre.state, last.pre.user_state[last.caller]) = 0)
    => /\ last.res = "Ok" /\ last.out = 0
       /\ Snapshot = last.pre

\* a claim with nothing owed by a user who is in the dividend pool, after a
\* profit has been recorded
C28_Witness ==
    /\ last.op = "claim_rewards" /\ last.res = "Ok" /\ last.out = 0
    /\ user_state[last.caller].dividend_shares > 0
    /\ state.acc_reward_per_share # <<>>

\* C29: send_prize(0) fails with InvalidAmount; a successful
\* send_prize(amount) lowers the vault balance by exactly amount and leaves
\* the supply, acc_reward_per_share, total_dividend_shares and every
\* UserState unchanged.
C29_SendPrizeEffect ==
    (last.op = "send_prize" /\ last.pre.state.initialized)
    => /\ last.arg = 0 => last.res = "InvalidAmount"
       /\ last.res = "Ok"
            => /\ clr_vault = last.pre.clr_vault - last.arg
               /\ xmutr_supply = last.pre.xmutr_supply
               /\ user_xmutr = last.pre.user_xmutr
               /\ state = last.pre.state
               /\ user_state = last.pre.user_state

\* a prize paid out of a reserve that has dividend shares and an accumulator
C29_Witness ==
    /\ Committed("send_prize") /\ last.arg > 0
    /\ state.total_dividend_shares > 0
    /\ state.acc_reward_per_share # <<>>

\* C30: in the concept implementation, in every state reached without
\* send_prize, the vault balance is at least the sum of all participants'
\* claimable rewards, and no claim_rewards fails in its transfer for lack of
\* vault funds.
C30_RewardSolvency ==
    impl = "concept"
    => /\ clr_vault >= TotalClaimable
       /\ ~(last.op = "claim_rewards" /\ last.res = "TokenError")

\* C31: with fees of at most 10000 bps, a successful stake(amount) followed
\* at once by a successful unstake, by the same participant, of exactly the
\* shares that stake minted pays back at most amount.
C31_NoProfitableRoundTrip ==
    (/\ Committed("unstake")
     /\ hist.op = "stake"
     /\ hist.caller = last.caller
     /\ last.arg = hist.out
     /\ state.stake_fee_bps <= 10000
     /\ state.unstake_fee_bps <= 10000)
    => last.out <= hist.arg

\* C32: for every participant reward_debt <= dividend_shares *
\* acc_reward_per_share, so the subtraction inside pending_rewards never
\* underflows: no join_dividend_pool, leave_dividend_pool or claim_rewards
\* ends in MathOverflow or a panic.
C32_DebtNeverAhead ==
    /\ \A u \in Users :
           BNLeq(user_state[u].reward_debt, accumulated_of(state, user_state[u]))
    /\ last.op \in {"join_dividend_pool", "leave_dividend_pool", "claim_rewards"}
           => last.res \notin {"MathOverflow", "Panic"}

\* a second participant has joined after a profit, so that the reward debt it
\* took on is non-zero, beside a participant whose debt lags the accumulator
C32_Witness ==
    /\ Committed("join_dividend_pool")
    /\ user_state[last.caller].reward_debt # <<>>
    /\ \E u \in Users \ {last.caller} :
           /\ user_state[u].dividend_shares > 0
           /\ BNLess(user_state[u].reward_debt,
                     accumulated_of(state, user_state[u]))

\* C33: a stake, unstake, join_dividend_pool, leave_dividend_pool or
\* claim_rewards called by one participant changes no field of another
\* participant's ledger and does not change the other's claimable reward.
C33_Isolation ==
    last.op \in {"stake", "unstake", "join_dividend_pool",
                 "leave_dividend_pool", "claim_rewards"}
    => \A b \in Users \ {last.caller} :
           /\ user_state[b] = last.pre.user_state[b]
           /\ Claimable(state, user_state[b])
                  = Claimable(last.pre.state, last.pre.user_state[b])

\* a participant joins the dividend pool, with a non-zero share count, beside
\* another participant who holds dividend shares and has a claimable reward
C33_Witness ==
    /\ Committed("join_dividend_pool") /\ last.arg > 0
    /\ \E b \in Users \ {last.caller} :
           /\ user_state[b].dividend_shares > 0
           /\ Claimable(state, user_state[b]) > 0

\* C34: a successful stake or unstake leaves acc_reward_per_share,
\* total_dividend_shares and the caller's dividend_shares, reward_debt and
\* pending_rewards unchanged, so the caller's claimable reward is the same
\* before and after.
C34_StakeUnstakeFrame ==
    (last.op \in {"stake", "unstake"} /\ last.res = "Ok")
    => LET before == last.pre.user_state[last.caller]
           after == user_state[last.caller]
       IN  /\ state.acc_reward_per_share = last.pre.state.acc_reward_per_share
           /\ state.total_dividend_shares = last.pre.state.total_dividend_shares
           /\ after.dividend_shares = before.dividend_shares
           /\ after.reward_debt = before.reward_debt
           /\ after.pending_rewards = before.pending_rewards
           /\ Claimable(state, after) = Claimable(last.pre.state, before)

\* an unstake by a participant who holds dividend shares and has a claimable
\* reward
C34_Witness ==
    /\ Committed("unstake") /\ last.arg > 0
    /\ user_state[last.caller].dividend_shares > 0
    /\ Claimable(state, user_state[last.caller]) > 0

\* the same for a stake
C34_StakeWithRewards ==
    /\ Committed("stake")
    /\ user_state[last.caller].dividend_shares > 0
    /\ Claimable(state, user_state[last.caller]) > 0

====
